---- MODULE Spec2Model ----
(***************************************************************************)
(* A model of torch/nested/_internal/cached_tensor.py: the CachedTensor    *)
(* wrapper (construction, attribute access, flatten / unflatten, the       *)
(* __torch_dispatch__ router) and the open function registry               *)
(* (_func_registry, set_func_registry, register_cached_tensor_func).       *)
(***************************************************************************)
EXTENDS Integers, Sequences, FiniteSets, TLC

(* ------------------------------ bounds -------------------------------- *)

\* Largest number of set_func_registry scopes open at the same time.
MaxDepth == 2

\* Largest number of register_cached_tensor_func calls in one behaviour.
MaxRegistrations == 1

\* Longest list inside an argument tree.
MaxLen == 2

\* Largest number of components of a mapping handed to CachedTensor.
MaxKeys == 2

(* ------------------------------ values -------------------------------- *)

None == [kind |-> "none"]

\* Two host tensors with different metadata (the values / offsets pair of a
\* nested tensor).
TensorV ==
    [kind |-> "tensor", name |-> "V", shape |-> <<4, 3>>, strides |-> <<3, 1>>,
     storage_offset |-> 0, device |-> "cpu", layout |-> "strided",
     requires_grad |-> TRUE, dtype |-> "float32"]

TensorO ==
    [kind |-> "tensor", name |-> "O", shape |-> <<5>>, strides |-> <<1>>,
     storage_offset |-> 0, device |-> "cpu", layout |-> "strided",
     requires_grad |-> FALSE, dtype |-> "int64"]

Tensors == {TensorV, TensorO}

\* A Python dict: its items in insertion order, keys unique.
Dict(items) == [kind |-> "dict", items |-> items]

EmptyDict == Dict(<<>>)

Item(k, v) == [key |-> k, value |-> v]

Keys(d) == [i \in DOMAIN d.items |-> d.items[i].key]

KeySet(d) == {d.items[i].key : i \in DOMAIN d.items}

HasKey(d, k) == k \in KeySet(d)

\* d[k] for a key that is present.
GetItem(d, k) == d.items[CHOOSE i \in DOMAIN d.items : d.items[i].key = k].value

KeyError(k) == [kind |-> "error", type |-> "KeyError", name |-> k]

(* --------------------------- CachedTensor ----------------------------- *)

VARIABLES
    obj,            \* the CachedTensor the last construction made, None when
                    \* it raised
    ret,            \* what the last completed call returned or raised
    regs,           \* the contents of every registry dict, by identity
    func_registry,  \* the module global _func_registry: the identity of a dict
    frames,         \* per thread, its open set_func_registry generator frames
    unwind,         \* per thread, the return / error now leaving its scopes
    nreg,           \* register_cached_tensor_func calls made so far
    interleaved     \* history: a thread assigned _func_registry while another
                    \* thread had a set_func_registry frame open

vars == <<obj, ret, regs, func_registry, frames, unwind, nreg, interleaved>>

\* metadata[source_field] of __new__, falling back to the first component when
\* the key is absent.
SourceFallback(metadata, source_field) ==
    IF HasKey(metadata, source_field)
    THEN GetItem(metadata, source_field)
    ELSE IF metadata.items = <<>> THEN KeyError(source_field)
         ELSE metadata.items[1].value

\* metadata[source_field] of __new__: a dict lookup, which raises KeyError for
\* an absent key.
Source(metadata, source_field) ==
    IF HasKey(metadata, source_field)
    THEN GetItem(metadata, source_field)
    ELSE KeyError(source_field)

\* CachedTensor(metadata, source_field): __new__ followed by __init__. __new__
\* raises before a wrapper is made when the source is absent; otherwise the
\* wrapper's tensor metadata is the source's, and __init__ stores the two
\* arguments and nested_int_ref = None.
CachedTensor(metadata, source_field) ==
    LET source == Source(metadata, source_field)
    IN  IF source.kind = "error" THEN source
        ELSE [kind |-> "proxy",
              shape |-> source.shape,
              strides |-> source.strides,
              storage_offset |-> source.storage_offset,
              device |-> source.device,
              layout |-> source.layout,
              requires_grad |-> source.requires_grad,
              dtype |-> source.dtype,
              source_field |-> source_field,
              metadata |-> metadata,
              nested_int_ref |-> None]

\* The names Python finds on a CachedTensor before it falls back to
\* __getattr__: the instance attributes __init__ sets and the tensor
\* properties the wrapper subclass carries.
DefinedNames ==
    {"source_field", "metadata", "nested_int_ref",
     "shape", "device", "layout", "requires_grad", "dtype"}

Str(s) == [kind |-> "str", s |-> s]

Size(dims) == [kind |-> "size", dims |-> dims]

Bool(b) == [kind |-> "bool", b |-> b]

AttributeError(type, name) ==
    [kind |-> "error", type |-> "AttributeError", of |-> type, name |-> name]

\* __getattr__(self, name), with a sentinel in place of the error.
GetAttrSentinel(p, name) ==
    IF HasKey(p.metadata, name) THEN GetItem(p.metadata, name) ELSE None

\* __getattr__(self, name).
GetAttr(p, name) ==
    IF HasKey(p.metadata, name)
    THEN GetItem(p.metadata, name)
    ELSE AttributeError("CachedTensor", name)

\* p.name: ordinary lookup first, __getattr__ only when that finds nothing.
Attribute(p, name) ==
    CASE name = "source_field" -> Str(p.source_field)
      [] name = "metadata" -> p.metadata
      [] name = "nested_int_ref" -> p.nested_int_ref
      [] name = "shape" -> Size(p.shape)
      [] name = "device" -> Str(p.device)
      [] name = "layout" -> Str(p.layout)
      [] name = "requires_grad" -> Bool(p.requires_grad)
      [] name = "dtype" -> Str(p.dtype)
      [] OTHER -> GetAttr(p, name)

\* __tensor_flatten__, returning the source key alone.
TensorFlattenSourceOnly(p) ==
    [kind |-> "flat",
     keys |-> <<p.source_field>>,
     ctx |-> Dict(<<Item("source_field", Str(p.source_field))>>)]

\* __tensor_flatten__: (list(self.metadata.keys()), ctx).
TensorFlatten(p) ==
    [kind |-> "flat",
     keys |-> Keys(p.metadata),
     ctx |-> Dict(<<Item("source_field", Str(p.source_field))>>)]

\* __tensor_unflatten__(inner_tensors, meta, outer_size, outer_stride);
\* meta["source_field"] raises KeyError when the context lacks the key.
TensorUnflatten(inner_tensors, meta) ==
    IF HasKey(meta, "source_field")
    THEN CachedTensor(inner_tensors, GetItem(meta, "source_field").s)
    ELSE KeyError("source_field")

(* ------------------------- the open registry -------------------------- *)

Threads == {"t1", "t2"}

MainThread == "t1"

Ops == {"aten.add", "aten.zeros"}

Fns == {"f1", "f2"}

NoFn == "absent"

\* Registry dicts by identity: the module's own dict and two dicts callers
\* hand to set_func_registry.
DefaultRegistry == "default"

UserRegistries == {"R1", "R2"}

Registries == {DefaultRegistry} \cup UserRegistries

\* _func_registry starts as {}; R1 overrides aten.add, R2 is empty.
RegInit ==
    [r \in Registries |->
        [o \in Ops |-> IF r = "R1" /\ o = "aten.add" THEN "f1" ELSE NoFn]]

NoUnwind == [kind |-> "none", from |-> 0]

Top(t) == frames[t][Len(frames[t])]

Pop(t) == SubSeq(frames[t], 1, Len(frames[t]) - 1)

OpenScopes == Len(frames["t1"]) + Len(frames["t2"])

\* Thread t is running ordinary code: nothing is unwinding and it is not
\* between the two assignments of a set_func_registry entry.
InBody(t) ==
    /\ unwind[t].kind = "none"
    /\ IF Len(frames[t]) = 0 THEN TRUE ELSE Top(t).pc = "body"

\* The registry whose scope thread t is in, "none" outside every scope.
ScopeOf(t) == IF Len(frames[t]) = 0 THEN "none" ELSE Top(t).registry

OthersOpen(t) == \E u \in Threads \ {t} : Len(frames[u]) > 0

\* set_func_registry, line 99: old_registry = _func_registry.
EnterSave(t, registry) ==
    /\ InBody(t)
    /\ OpenScopes < MaxDepth
    /\ frames' = [frames EXCEPT ![t] =
            Append(@, [old_registry |-> func_registry,
                       registry |-> registry, pc |-> "saved"])]
    /\ UNCHANGED <<obj, ret, regs, func_registry, unwind, nreg, interleaved>>

\* set_func_registry, line 101: _func_registry = registry; then the body runs.
EnterInstall(t) ==
    /\ Len(frames[t]) > 0
    /\ Top(t).pc = "saved"
    /\ func_registry' = Top(t).registry
    /\ frames' = [frames EXCEPT ![t] =
            Append(Pop(t), [Top(t) EXCEPT !.pc = "body"])]
    /\ interleaved' = (interleaved \/ OthersOpen(t))
    /\ UNCHANGED <<obj, ret, regs, unwind, nreg>>

\* The finally clause skipped when the body raised.
RestoredUnlessRaised(t) ==
    IF unwind[t].kind = "raise" THEN func_registry ELSE Top(t).old_registry

\* The finally clause restoring the module's first dict instead of the saved one.
RestoredDefault(t) == DefaultRegistry

\* The finally clause assigning the registry the scope itself installed.
RestoredOwn(t) == Top(t).registry

\* What the finally clause assigns: the old_registry this frame saved.
Restored(t) == Top(t).old_registry

\* set_func_registry, lines 104-106: the body is left (normally, by a return
\* or by an error) and the finally clause runs; a return or an error in
\* flight goes on to the enclosing code.
ExitScope(t) ==
    /\ Len(frames[t]) > 0
    /\ Top(t).pc = "body"
    /\ func_registry' = Restored(t)
    /\ frames' = [frames EXCEPT ![t] = Pop(t)]
    /\ interleaved' = (interleaved \/ OthersOpen(t))
    /\ UNCHANGED <<obj, ret, regs, unwind, nreg>>

\* The body of a scope raises an error of its own.
RaiseInBody(t) ==
    /\ InBody(t)
    /\ Len(frames[t]) > 0
    /\ unwind' = [unwind EXCEPT ![t] = [kind |-> "raise", from |-> Len(frames[t])]]
    /\ UNCHANGED <<obj, ret, regs, func_registry, frames, nreg, interleaved>>

\* The body of a scope returns early.
ReturnInBody(t) ==
    /\ InBody(t)
    /\ Len(frames[t]) > 0
    /\ unwind' = [unwind EXCEPT ![t] = [kind |-> "return", from |-> Len(frames[t])]]
    /\ UNCHANGED <<obj, ret, regs, func_registry, frames, nreg, interleaved>>

\* The return reaches its caller, or the error its handler, and ordinary
\* code runs again.
Land(t) ==
    /\ unwind[t].kind # "none"
    /\ unwind' = [unwind EXCEPT ![t] = NoUnwind]
    /\ UNCHANGED <<obj, ret, regs, func_registry, frames, nreg, interleaved>>

\* The dict register_cached_tensor_func's wrapper writes: the one the global
\* _func_registry names when the wrapper runs.
RegisterTarget == func_registry

\* register_cached_tensor_func(aten_op)(func): _func_registry[aten_op] = func.
Register(t, aten_op, func) ==
    /\ InBody(t)
    /\ nreg < MaxRegistrations
    /\ regs' = [regs EXCEPT ![RegisterTarget][aten_op] = func]
    /\ nreg' = nreg + 1
    /\ ret' = [kind |-> "register", thread |-> t, op |-> aten_op, fn |-> func,
               scope |-> ScopeOf(t), result |-> func]
    /\ UNCHANGED <<obj, func_registry, frames, unwind, interleaved>>

(* -------------------------- __torch_dispatch__ ------------------------- *)

List(items) == [kind |-> "list", items |-> items]

OpToken(op) == [kind |-> "op", name |-> op]

\* What a callee hands back for the arguments it was called with, and the
\* error it raises instead.
Value(callee, args, kwargs) ==
    [kind |-> "value", by |-> callee, args |-> args, kwargs |-> kwargs]

OpError(callee) == [kind |-> "error", type |-> "OpError", by |-> callee]

\* The unwrapping lambda reading the first component whatever source_field is.
UnwrapFirst(x) == x.metadata.items[1].value

\* lambda x: x.metadata[x.source_field]
Unwrap(x) == GetItem(x.metadata, x.source_field)

\* pytree.tree_map_only(CachedTensor, lambda x: x.metadata[x.source_field], tree):
\* containers are rebuilt around their mapped children, a CachedTensor leaf is
\* replaced, every other leaf is kept.
RECURSIVE TreeMapOnly(_)
TreeMapOnly(tree) ==
    CASE tree.kind = "proxy" -> Unwrap(tree)
      [] tree.kind = "list" ->
            List([i \in DOMAIN tree.items |-> TreeMapOnly(tree.items[i])])
      [] tree.kind = "dict" ->
            Dict([i \in DOMAIN tree.items |->
                    Item(tree.items[i].key, TreeMapOnly(tree.items[i].value))])
      [] OTHER -> tree

\* if kwargs is None: kwargs = {}
KwargsOrEmpty(kwargs) == IF kwargs.kind = "none" THEN EmptyDict ELSE kwargs

\* The registry lookup falling through to the module's first dict on a miss.
ActiveLookupMerged(op) ==
    IF regs[func_registry][op] # NoFn
    THEN regs[func_registry][op]
    ELSE regs[DefaultRegistry][op]

\* _func_registry[op] when op in _func_registry, NoFn otherwise: the dict the
\* global names at the time of the call.
ActiveLookup(op) == regs[func_registry][op]

\* The override's positional arguments with every CachedTensor unwrapped.
OverrideArgsUnwrapped(op, args) ==
    List(<<OpToken(op)>> \o TreeMapOnly(args).items)

\* (op, *args) of line 72.
OverrideArgs(op, args) == List(<<OpToken(op)>> \o args.items)

\* __torch_dispatch__(cls, op, types, args, kwargs) called by thread t, the
\* callee returning or raising as `outcome` says.
Dispatch(t, op, args, kwargs, outcome) ==
    LET kw == KwargsOrEmpty(kwargs)
        fn == ActiveLookup(op)
        hit == fn # NoFn
        callee == IF hit THEN fn ELSE op
        call_args == IF hit THEN OverrideArgs(op, args) ELSE TreeMapOnly(args)
        call_kwargs == IF hit THEN kw ELSE TreeMapOnly(kw)
    IN  /\ InBody(t)
        /\ ret' = [kind |-> "dispatch", thread |-> t, op |-> op,
                   args |-> args, kwargs |-> kwargs,
                   consulted |-> func_registry, scope |-> ScopeOf(t),
                   path |-> IF hit THEN "override" ELSE "default",
                   callee |-> callee,
                   call_args |-> call_args, call_kwargs |-> call_kwargs,
                   outcome |-> outcome,
                   result |-> IF outcome = "returned"
                              THEN Value(callee, call_args, call_kwargs)
                              ELSE OpError(callee)]
        /\ unwind' = IF outcome = "raised"
                     THEN [unwind EXCEPT ![t] =
                            [kind |-> "raise", from |-> Len(frames[t])]]
                     ELSE unwind
        /\ UNCHANGED <<obj, regs, func_registry, frames, nreg, interleaved>>

(* ------------------------------ inputs -------------------------------- *)

SeqsUpTo(S, n) == UNION {[1..k -> S] : k \in 0..n}

Distinct(s) == \A i, j \in DOMAIN s : i # j => s[i] # s[j]

KeyNames == {"values", "offsets", "metadata"}

\* Names asked of a CachedTensor: component names, a name no mapping has, and
\* names defined on the object itself.
AttrNames == KeyNames \cup {"lengths", "source_field", "shape"}

SourceNames == KeyNames \cup {"lengths"}

Dicts ==
    {Dict(items) :
        items \in {s \in SeqsUpTo({Item(k, v) : k \in KeyNames, v \in Tensors}, MaxKeys) :
                      Distinct([i \in DOMAIN s |-> s[i].key])}}

Metas ==
    {EmptyDict} \cup {Dict(<<Item("source_field", Str(n))>>) : n \in SourceNames}

\* Two wrappers over the same components; ProxyA's source is the first key,
\* ProxyB's the second.
ProxyA ==
    CachedTensor(Dict(<<Item("values", TensorV), Item("offsets", TensorO)>>), "values")

ProxyB ==
    CachedTensor(Dict(<<Item("values", TensorV), Item("offsets", TensorO)>>), "offsets")

Leaves == {TensorV, ProxyA, ProxyB}

Nodes == Leaves \cup {List(s) : s \in SeqsUpTo(Leaves, MaxLen)}

ArgTrees == {List(<<>>)} \cup {List(<<x>>) : x \in Nodes}

KwargTrees == {None, EmptyDict, Dict(<<Item("out", ProxyB)>>)}

Outcomes == {"returned", "raised"}

(* -------------------------- wrapper operations ------------------------ *)

\* CachedTensor(metadata, source_field) called by user code.
Construct(metadata, source_field) ==
    LET r == CachedTensor(metadata, source_field)
    IN  /\ ret' = [kind |-> "construct", metadata |-> metadata,
                   source_field |-> Str(source_field),
                   mapping_after |-> metadata, result |-> r]
        /\ obj' = IF r.kind = "error" THEN None ELSE r
        /\ UNCHANGED <<regs, func_registry, frames, unwind, nreg, interleaved>>

\* obj.name
ReadAttribute(name) ==
    /\ obj.kind = "proxy"
    /\ ret' = [kind |-> "getattr", of |-> obj, name |-> name,
               result |-> Attribute(obj, name)]
    /\ UNCHANGED <<obj, regs, func_registry, frames, unwind, nreg, interleaved>>

\* obj.__tensor_flatten__()
Flatten ==
    /\ obj.kind = "proxy"
    /\ ret' = [kind |-> "flatten", of |-> obj, result |-> TensorFlatten(obj)]
    /\ UNCHANGED <<obj, regs, func_registry, frames, unwind, nreg, interleaved>>

\* The mapping a traversal hands back: each flattened key with the component
\* p holds under it.
ComponentsByKey(p, keys) ==
    Dict([i \in DOMAIN keys |-> Item(keys[i], GetItem(p.metadata, keys[i]))])

\* CachedTensor.__tensor_unflatten__(inner_tensors, meta, outer_size, outer_stride);
\* `flattened` is the wrapper the arguments were taken from, None when they
\* come from elsewhere.
Unflatten(inner_tensors, meta, flattened) ==
    LET r == TensorUnflatten(inner_tensors, meta)
    IN  /\ ret' = [kind |-> "unflatten", metadata |-> inner_tensors,
                   source_field |-> IF HasKey(meta, "source_field")
                                    THEN GetItem(meta, "source_field")
                                    ELSE None,
                   meta |-> meta, flattened |-> flattened,
                   mapping_after |-> inner_tensors, result |-> r]
        /\ obj' = IF r.kind = "error" THEN None ELSE r
        /\ UNCHANGED <<regs, func_registry, frames, unwind, nreg, interleaved>>

\* A traversal that has just flattened obj reconstructs it from what
\* __tensor_flatten__ returned.
Reconstruct ==
    /\ ret.kind = "flatten"
    /\ Unflatten(ComponentsByKey(ret.of, ret.result.keys), ret.result.ctx, ret.of)

(* --------------------------- specifications --------------------------- *)

Init ==
    /\ obj = None
    /\ ret = None
    /\ regs = RegInit
    /\ func_registry = DefaultRegistry
    /\ frames = [t \in Threads |-> <<>>]
    /\ unwind = [t \in Threads |-> NoUnwind]
    /\ nreg = 0
    /\ interleaved = FALSE

Enter(t) == \E registry \in UserRegistries : EnterSave(t, registry)

RegisterAny(t) == \E aten_op \in Ops, func \in Fns : Register(t, aten_op, func)

\* A dispatch of one operation on one wrapper.
DispatchOne(t) ==
    \E op \in Ops, outcome \in Outcomes :
        Dispatch(t, op, List(<<ProxyB>>), None, outcome)

\* A dispatch over an argument tree, the callee returning.
DispatchTree(t) ==
    \E op \in Ops, args \in ArgTrees, kwargs \in KwargTrees :
        Dispatch(t, op, args, kwargs, "returned")

ThreadStep(t) ==
    \/ Enter(t)
    \/ EnterInstall(t)
    \/ ExitScope(t)
    \/ RaiseInBody(t)
    \/ ReturnInBody(t)
    \/ Land(t)
    \/ RegisterAny(t)
    \/ DispatchOne(t)

\* One thread: scopes, registrations and dispatches.
Next == ThreadStep(MainThread)

Spec == Init /\ [][Next]_vars

\* Two threads sharing the module, each entering and leaving scopes and
\* dispatching.
NextConc ==
    \E t \in Threads :
        \/ Enter(t)
        \/ EnterInstall(t)
        \/ ExitScope(t)
        \/ Land(t)
        \/ DispatchOne(t)

SpecConc == Init /\ [][NextConc]_vars

\* One thread dispatching over argument trees inside and outside scopes.
NextTree ==
    \/ Enter(MainThread)
    \/ EnterInstall(MainThread)
    \/ ExitScope(MainThread)
    \/ DispatchTree(MainThread)

SpecTree == Init /\ [][NextTree]_vars

\* The wrapper's own operations.
NextProxy ==
    \/ \E metadata \in Dicts, source_field \in SourceNames :
            Construct(metadata, source_field)
    \/ \E name \in AttrNames : ReadAttribute(name)
    \/ Flatten
    \/ \E inner_tensors \in Dicts, meta \in Metas :
            Unflatten(inner_tensors, meta, None)
    \/ Reconstruct

SpecProxy == Init /\ [][NextProxy]_vars

(* ------------------------------ claims -------------------------------- *)

\* out is in with every CachedTensor replaced by the component its own
\* source_field names and everything else as it was.
RECURSIVE Transparent(_, _)
Transparent(in, out) ==
    CASE in.kind = "proxy" ->
            \E i \in DOMAIN in.metadata.items :
                /\ in.metadata.items[i].key = in.source_field
                /\ out = in.metadata.items[i].value
      [] in.kind = "list" ->
            /\ out.kind = "list"
            /\ Len(out.items) = Len(in.items)
            /\ \A i \in DOMAIN in.items : Transparent(in.items[i], out.items[i])
      [] in.kind = "dict" ->
            /\ out.kind = "dict"
            /\ Len(out.items) = Len(in.items)
            /\ \A i \in DOMAIN in.items :
                /\ out.items[i].key = in.items[i].key
                /\ Transparent(in.items[i].value, out.items[i].value)
      [] OTHER -> out = in

\* C1: a dispatch of an operation that is not a key of the registry active at
\* the call takes the default path: the operation itself is called, on the
\* argument tree and keyword arguments with every CachedTensor replaced by
\* its own metadata[source_field] and every other value unchanged, and its
\* result is what the dispatch returns.
C1_DefaultTransparency ==
    (ret.kind = "dispatch" /\ regs[ret.consulted][ret.op] = NoFn) =>
        /\ ret.path = "default"
        /\ ret.callee = ret.op
        /\ Transparent(ret.args, ret.call_args)
        /\ IF ret.kwargs.kind = "none"
           THEN ret.call_kwargs = EmptyDict
           ELSE Transparent(ret.kwargs, ret.call_kwargs)
        /\ ret.result = Value(ret.op, ret.call_args, ret.call_kwargs)

\* C1 witness: inside the scope of the empty registry R2, a dispatch whose
\* arguments nest a plain tensor and both wrappers in a list, with a wrapper
\* as keyword argument, called the operation on the unwrapped tree.
C1_Witness ==
    /\ ret.kind = "dispatch"
    /\ ret.scope = "R2"
    /\ ret.path = "default"
    /\ ret.args = List(<<List(<<ProxyA, ProxyB>>)>>)
    /\ ret.kwargs = Dict(<<Item("out", ProxyB)>>)
    /\ ret.call_args = List(<<List(<<TensorV, TensorO>>)>>)
    /\ ret.call_kwargs = Dict(<<Item("out", TensorO)>>)

\* C2: a dispatch of an operation that is a key of the registry active at the
\* call invokes the function registered for it with (op, *args, **kwargs),
\* every CachedTensor passed through intact, never the operation itself, and
\* returns the override's result.
C2_ExplicitOverride ==
    (ret.kind = "dispatch" /\ regs[ret.consulted][ret.op] # NoFn) =>
        /\ ret.path = "override"
        /\ ret.callee = regs[ret.consulted][ret.op]
        /\ ret.callee \in Fns
        /\ ret.call_args = List(<<OpToken(ret.op)>> \o ret.args.items)
        /\ ret.call_kwargs = IF ret.kwargs.kind = "none" THEN EmptyDict ELSE ret.kwargs
        /\ ret.result = Value(ret.callee, ret.call_args, ret.call_kwargs)

\* C2 witness: inside the scope of R1 a dispatch of aten.add over both
\* wrappers reached f1 with the wrappers still wrapped.
C2_Witness ==
    /\ ret.kind = "dispatch"
    /\ ret.scope = "R1"
    /\ ret.op = "aten.add"
    /\ ret.path = "override"
    /\ ret.callee = "f1"
    /\ ret.args = List(<<List(<<ProxyA, ProxyB>>)>>)
    /\ ret.kwargs = Dict(<<Item("out", ProxyB)>>)
    /\ ret.call_args = List(<<OpToken("aten.add"), List(<<ProxyA, ProxyB>>)>>)
    /\ ret.call_kwargs = Dict(<<Item("out", ProxyB)>>)

\* C3: every step that leaves a set_func_registry scope, whether the body
\* finished, returned early or raised, makes the registry that was active on
\* entry active again, and a return or an error in flight stays in flight.
C3_RestoreOnEveryExit ==
    [][\A t \in Threads :
        Len(frames'[t]) < Len(frames[t]) =>
            /\ func_registry' = Top(t).old_registry
            /\ unwind'[t] = unwind[t]]_vars

\* C3 witness: a dispatch inside two nested scopes raised, the error left
\* both scopes and is still propagating, and the default registry is active.
C3_Witness ==
    /\ ret.kind = "dispatch"
    /\ ret.outcome = "raised"
    /\ unwind[MainThread] = [kind |-> "raise", from |-> 2]
    /\ Len(frames[MainThread]) = 0
    /\ func_registry = DefaultRegistry

\* C4: with one thread, each open scope saved the registry its enclosing
\* scope installed (the default one for the outermost), and the active
\* registry is the one the innermost running body's scope installed, or the
\* default one when no scope is open.
C4_StackDiscipline ==
    LET f == frames[MainThread]
    IN  /\ \A i \in DOMAIN f :
            f[i].old_registry = IF i = 1 THEN DefaultRegistry ELSE f[i - 1].registry
        /\ func_registry =
            IF Len(f) = 0 THEN DefaultRegistry
            ELSE IF f[Len(f)].pc = "body" THEN f[Len(f)].registry
                 ELSE f[Len(f)].old_registry

\* C4 witness: an inner scope nested in the scope of R2 installed R1 and has
\* been left by an early return; R2 is active again.
C4_Witness ==
    /\ Len(frames[MainThread]) = 1
    /\ frames[MainThread][1].registry = "R2"
    /\ unwind[MainThread] = [kind |-> "return", from |-> 2]
    /\ func_registry = "R2"
    /\ regs["R1"] # regs["R2"]

\* C5: after register_cached_tensor_func(op)(fn), in whatever state it was
\* called, the module-level default registry maps op to fn.
C5_RegistersInDefault ==
    ret.kind = "register" => regs[DefaultRegistry][ret.op] = ret.fn

\* C9: inside a set_func_registry(R) scope a dispatch takes the override
\* path exactly when its operation is a key of R, and then calls R's
\* function; an override held by the outer or default registry is not used.
C9_SwappedNotMerged ==
    (ret.kind = "dispatch" /\ ret.scope # "none") =>
        /\ ret.path = "override" <=> regs[ret.scope][ret.op] # NoFn
        /\ ret.path = "override" => ret.callee = regs[ret.scope][ret.op]
        /\ ret.path = "default" => ret.callee = ret.op

\* C9 witness: the default registry overrides the operation, the empty R2 is
\* installed, and the dispatch unwrapped its argument and called the
\* operation.
C9_Witness ==
    /\ ret.kind = "dispatch"
    /\ ret.scope = "R2"
    /\ regs[DefaultRegistry][ret.op] # NoFn
    /\ regs["R2"] = [o \in Ops |-> NoFn]
    /\ ret.path = "default"
    /\ ret.callee = ret.op
    /\ ret.call_args = List(<<TensorO>>)

\* C10: with two threads sharing _func_registry, a dispatch inside a thread's
\* own scope consults another registry than the one that scope installed, or
\* the module is left with a registry other than the default one after every
\* scope has exited, only when one thread assigned _func_registry while the
\* other had a scope open.
C10_UnsafeOnlyInterleaved ==
    /\ (ret.kind = "dispatch" /\ ret.scope # "none" /\ ret.consulted # ret.scope)
            => interleaved
    /\ ((\A t \in Threads : Len(frames[t]) = 0) /\ func_registry # DefaultRegistry)
            => interleaved

\* C10 witness: t1 dispatched inside its scope of R1 and consulted R2, which
\* t2 installed; both scopes have exited and the active registry is not the
\* default one.
C10_Witness ==
    /\ ret.kind = "dispatch"
    /\ ret.thread = "t1"
    /\ ret.scope = "R1"
    /\ ret.consulted = "R2"
    /\ \A t \in Threads : Len(frames[t]) = 0 /\ unwind[t].kind = "none"
    /\ func_registry # DefaultRegistry

\* C6: __tensor_flatten__ returns every key of the mapping in the mapping's
\* order and a context carrying source_field, and __tensor_unflatten__ on
\* those keys mapped to the wrapper's own components and that context yields
\* a wrapper with the same keys, components, source_field and tensor
\* metadata.
C6_RoundTrip ==
    /\ ret.kind = "flatten" =>
        /\ Len(ret.result.keys) = Len(ret.of.metadata.items)
        /\ \A i \in DOMAIN ret.of.metadata.items :
                ret.result.keys[i] = ret.of.metadata.items[i].key
        /\ ret.result.ctx.items = <<Item("source_field", Str(ret.of.source_field))>>
    /\ (ret.kind = "unflatten" /\ ret.flattened.kind = "proxy") =>
        /\ ret.result.kind = "proxy"
        /\ ret.result.metadata = ret.flattened.metadata
        /\ ret.result.source_field = ret.flattened.source_field
        /\ \A field \in {"shape", "strides", "storage_offset", "device",
                           "layout", "requires_grad", "dtype"} :
                ret.result[field] = ret.flattened[field]

\* C6 witness: a wrapper with two components whose source is the second key
\* has been flattened and reconstructed.
C6_Witness ==
    /\ ret.kind = "unflatten"
    /\ ret.flattened.kind = "proxy"
    /\ Len(ret.flattened.metadata.items) = 2
    /\ ret.flattened.source_field = ret.flattened.metadata.items[2].key
    /\ ret.flattened.metadata.items[1].value # ret.flattened.metadata.items[2].value
    /\ obj = ret.flattened

\* C7 as stated: p.name is the component for every key of the mapping,
\* whatever the name, and an attribute error naming the type and the name for
\* every other name not defined on the wrapper.
C7_AnyKeyIsTheComponent ==
    ret.kind = "getattr" =>
        /\ HasKey(ret.of.metadata, ret.name) =>
                ret.result = GetItem(ret.of.metadata, ret.name)
        /\ (~HasKey(ret.of.metadata, ret.name) /\ ret.name \notin DefinedNames) =>
                ret.result = AttributeError("CachedTensor", ret.name)

\* C7 amended: for a name not otherwise defined on the wrapper, p.name is the
\* component when the name is a key of the mapping and an attribute error
\* carrying the type name and the requested name when it is not.
C7_UndefinedNames ==
    (ret.kind = "getattr" /\ ret.name \notin DefinedNames) =>
        IF HasKey(ret.of.metadata, ret.name)
        THEN ret.result = GetItem(ret.of.metadata, ret.name)
        ELSE /\ ret.result.kind = "error"
             /\ ret.result.type = "AttributeError"
             /\ ret.result.of = "CachedTensor"
             /\ ret.result.name = ret.name

\* C7 witness: the component that is not the source was read by name.
C7_Witness ==
    /\ ret.kind = "getattr"
    /\ ret.name = "offsets"
    /\ ret.of.source_field = "values"
    /\ HasKey(ret.of.metadata, "offsets")
    /\ ret.result = GetItem(ret.of.metadata, "offsets")
    /\ ret.result.kind = "tensor"

\* C8: constructing or reconstructing with a source key absent from the
\* mapping raises a key error for that key, makes no wrapper and leaves the
\* mapping as it was; every wrapper made has its source_field among its keys.
C8_FailFast ==
    /\ (/\ ret.kind \in {"construct", "unflatten"}
        /\ ret.source_field.kind = "str"
        /\ ~HasKey(ret.metadata, ret.source_field.s)) =>
            /\ ret.result = KeyError(ret.source_field.s)
            /\ obj = None
            /\ ret.mapping_after = ret.metadata
    /\ obj.kind = "proxy" => HasKey(obj.metadata, obj.source_field)
    /\ (ret.kind \in {"construct", "unflatten"} /\ ret.result.kind = "proxy") =>
            HasKey(ret.result.metadata, ret.result.source_field)

\* C8 witness: a reconstruction whose context names a source the two-component
\* inner mapping lacks raised the key error.
C8_Witness ==
    /\ ret.kind = "unflatten"
    /\ ret.source_field = Str("lengths")
    /\ Len(ret.metadata.items) = 2
    /\ ret.result = KeyError("lengths")
    /\ obj = None

====
